---- MODULE Spec2Model ----
(***************************************************************************)
(* Model of functions/index.js: the push-notification dispatcher           *)
(* (sendPushNotification), the two scheduled reapers                        *)
(* (cleanupNotificationQueue, cleanupExpiredPosts) and the documents they   *)
(* read and write.  One action per await point of each handler: the        *)
(* synchronous code that follows an await is part of the action that       *)
(* resumes from it.                                                         *)
(***************************************************************************)
EXTENDS Integers, Sequences, FiniteSets, TLC

\* ------------------------------------------------------------------ bounds
MaxNotifs == 1        \* outbox records in a dispatcher behaviour
MaxQueued == 2        \* outbox records in a QueueReaper behaviour
MaxInvocations == 2   \* deliveries of creation events (duplicates included)
MaxFaults == 2        \* store failures injected in one behaviour
MaxPosts == 2         \* posts in the store of a ContentReaper run
MaxRuns == 2          \* scheduled runs of QueueReaper in one behaviour
MaxAdds == 1          \* answers clients add during one ContentReaper run
MaxRequests == 3      \* requests ManualEnqueue receives in one behaviour
MaxTicks == 2         \* hours that pass during a behaviour of QueueReaper

\* --------------------------------------------------------------- constants
NoTime == 0 - 1       \* the field sent_at is absent
Absent == "absent"    \* a field that the document does not hold
EmptyString == ""

InvIds == 1..MaxInvocations
Users == {"u1"}
Tokens == {"t1"}
TokenValues == {Absent, EmptyString} \cup Tokens

INVALID_TOKEN == "messaging/invalid-registration-token"
NOT_REGISTERED == "messaging/registration-token-not-registered"
OTHER_ERROR == "messaging/internal-error"
STORE_ERROR == "store/unavailable"
NOT_FOUND == "store/not-found"
ProviderErrors == {INVALID_TOKEN, NOT_REGISTERED, OTHER_ERROR}
NO_TOKEN_MESSAGE == "No FCM token"

VARIABLES
  outbox,    \* push_notifications_queue: id -> document
  event,     \* the creation event of each outbox record: the snapshot it carries
  profiles,  \* profiles: user -> document
  inv,       \* the dispatcher invocations
  terminal,  \* id -> a dispatcher update of sent=true has been applied
  faults,    \* store failures injected so far
  now,       \* the server clock, in hours
  posts,     \* questions: id -> document
  answers,   \* questions/{id}/answers: id -> the ids of its answer documents
  before,    \* the two collections as they were when the ContentReaper run started
  cr,        \* the ContentReaper run (cleanupExpiredPosts)
  qr,        \* the QueueReaper runs (cleanupNotificationQueue)
  writer,    \* post id -> where the ContentReaper run stood when a client added an answer
  http       \* the ManualEnqueue requests (sendTestNotification)

dispatchVars == <<outbox, event, profiles, inv, terminal>>
contentVars == <<posts, answers, before, cr, writer, http>>
reaperVars == <<posts, answers, before, cr, qr, writer, http>>
\* The ids of the outbox records
NotifIds == DOMAIN outbox

vars == <<outbox, event, profiles, inv, terminal, faults, now, posts, answers, before, cr, qr,
          writer, http>>

\* ------------------------------------------------------------------- store

\* The outcomes of a store write on one document: update() of a missing
\* document is rejected, and any write may fail.
UpdateOutcomes(exists) ==
  IF ~exists THEN {NOT_FOUND}
  ELSE {"ok"} \cup (IF faults < MaxFaults THEN {STORE_ERROR} ELSE {})

Injected(outcome) == IF outcome = STORE_ERROR THEN 1 ELSE 0

\* error.message of an error, by its code
ErrMessage(code) == <<"message of", code>>

\* The token test that takes only a missing field for no token
FalsyAbsentOnly(t) == t = Absent

\* `!fcm_token`
Falsy(t) == t \in {Absent, EmptyString}

\* ------------------------------------------------------------- dispatcher

IdleInv == [pc |-> "idle", n |-> 0, snap |-> [sent |-> FALSE, fcm_token |-> Absent, user_id |-> "u1"],
            sendResult |-> "none", code |-> "none", response |-> "none",
            sends |-> 0, writes |-> 0, pwrites |-> 0, applied |-> 0,
            late |-> FALSE, cleanup |-> "none"]

\* The entry without the gate on sent
DispatchEntryNoGate(snap) ==
  IF Falsy(snap.fcm_token) THEN "noTokenUpdate" ELSE "send"

\* Lines 15-35 up to the first await: the gate on snap.data().sent and the
\* test of the token.
DispatchEntry(snap) ==
  IF snap.sent = TRUE THEN "returned"
  ELSE IF Falsy(snap.fcm_token) THEN "noTokenUpdate"
  ELSE "send"

\* The no-token payload without its sent flag
NoTokenFieldsUnsent(doc, t) ==
  [doc EXCEPT !.error = NO_TOKEN_MESSAGE, !.sent_at = t]

\* The three payloads of snap.ref.update (a merge into the stored document)
NoTokenFields(doc, t) ==
  [doc EXCEPT !.sent = TRUE, !.error = NO_TOKEN_MESSAGE, !.sent_at = t]

SuccessFields(doc, t, response) ==
  [doc EXCEPT !.sent = TRUE, !.sent_at = t, !.fcm_response = response]

\* The payload of a failed send that clears the sent flag
ErrorFieldsUnsent(doc, t, message) ==
  [doc EXCEPT !.sent = FALSE, !.error = message, !.sent_at = t]

ErrorFields(doc, t, message) ==
  [doc EXCEPT !.sent = TRUE, !.error = message, !.sent_at = t]

\* Every provider error taken for a permanent token error
AnyErrorIsPermanent(code) == code \in ProviderErrors \cup {STORE_ERROR, NOT_FOUND}

\* error.code === invalid-registration-token || registration-token-not-registered
IsPermanentTokenError(code) == code \in {INVALID_TOKEN, NOT_REGISTERED}

\* After the error update of line 85: the token cleanup or the return
AfterErrorUpdate(code) == IF IsPermanentTokenError(code) THEN "cleanup" ELSE "returned"

\* The event system delivers the creation event of record n to invocation i
\* (at least once: the same event may be delivered again).
Trigger(i, n) ==
  /\ inv[i].pc = "idle"
  /\ \A k \in InvIds : k < i => inv[k].pc # "idle"
  /\ outbox[n].exists
  /\ inv' = [inv EXCEPT ![i] = [@ EXCEPT !.pc = DispatchEntry(event[n]), !.n = n,
                                         !.snap = event[n], !.late = terminal[n]]]
  /\ UNCHANGED <<outbox, event, profiles, terminal, faults, now, reaperVars>>

\* line 29: await snap.ref.update({sent, error: 'No FCM token', sent_at})
NoTokenUpdate(i) ==
  /\ inv[i].pc = "noTokenUpdate"
  /\ LET n == inv[i].n IN
     \E o \in UpdateOutcomes(outbox[n].exists) :
       /\ faults' = faults + Injected(o)
       /\ IF o = "ok"
          THEN /\ outbox' = [outbox EXCEPT ![n] = NoTokenFields(@, now)]
               /\ terminal' = [terminal EXCEPT ![n] = TRUE]
               /\ inv' = [inv EXCEPT ![i] = [@ EXCEPT !.pc = "returned", !.writes = @ + 1,
                                                      !.applied = @ + 1]]
          ELSE /\ inv' = [inv EXCEPT ![i] = [@ EXCEPT !.pc = "threw", !.writes = @ + 1]]
               /\ UNCHANGED <<outbox, terminal>>
  /\ UNCHANGED <<event, profiles, now, reaperVars>>

\* line 70: await admin.messaging().send(message)
Send(i) ==
  /\ inv[i].pc = "send"
  /\ \E r \in {"ok"} \cup ProviderErrors :
       inv' = [inv EXCEPT ![i] = [@ EXCEPT !.sends = @ + 1,
                 !.pc = IF r = "ok" THEN "successUpdate" ELSE "errorUpdate",
                 !.sendResult = r,
                 !.response = IF r = "ok" THEN "message-id" ELSE "none",
                 !.code = IF r = "ok" THEN "none" ELSE r]]
  /\ UNCHANGED <<outbox, event, profiles, terminal, faults, now, reaperVars>>

\* line 74: await snap.ref.update({sent, sent_at, fcm_response}); a failure is
\* caught at line 81 like a failure of the send
SuccessUpdate(i) ==
  /\ inv[i].pc = "successUpdate"
  /\ LET n == inv[i].n IN
     \E o \in UpdateOutcomes(outbox[n].exists) :
       /\ faults' = faults + Injected(o)
       /\ IF o = "ok"
          THEN /\ outbox' = [outbox EXCEPT ![n] = SuccessFields(@, now, inv[i].response)]
               /\ terminal' = [terminal EXCEPT ![n] = TRUE]
               /\ inv' = [inv EXCEPT ![i] = [@ EXCEPT !.pc = "returned", !.writes = @ + 1,
                                                      !.applied = @ + 1]]
          ELSE /\ inv' = [inv EXCEPT ![i] = [@ EXCEPT !.pc = "errorUpdate", !.writes = @ + 1,
                                                      !.code = o]]
               /\ UNCHANGED <<outbox, terminal>>
  /\ UNCHANGED <<event, profiles, now, reaperVars>>

\* line 85: await snap.ref.update({sent, error: error.message, sent_at}), in
\* the catch block: its own failure leaves the handler
ErrorUpdate(i) ==
  /\ inv[i].pc = "errorUpdate"
  /\ LET n == inv[i].n IN
     \E o \in UpdateOutcomes(outbox[n].exists) :
       /\ faults' = faults + Injected(o)
       /\ IF o = "ok"
          THEN /\ outbox' = [outbox EXCEPT ![n] = ErrorFields(@, now, ErrMessage(inv[i].code))]
               /\ terminal' = [terminal EXCEPT ![n] = TRUE]
               /\ inv' = [inv EXCEPT ![i] = [@ EXCEPT !.pc = AfterErrorUpdate(inv[i].code),
                                                      !.writes = @ + 1, !.applied = @ + 1]]
          ELSE /\ inv' = [inv EXCEPT ![i] = [@ EXCEPT !.pc = "threw", !.writes = @ + 1]]
               /\ UNCHANGED <<outbox, terminal>>
  /\ UNCHANGED <<event, profiles, now, reaperVars>>

\* lines 95-104: await profiles.doc(user_id).update({fcm_token: delete()}),
\* its failure caught and logged
Cleanup(i) ==
  /\ inv[i].pc = "cleanup"
  /\ LET u == inv[i].snap.user_id IN
     \E o \in UpdateOutcomes(profiles[u].exists) :
       /\ faults' = faults + Injected(o)
       /\ profiles' = IF o = "ok" THEN [profiles EXCEPT ![u].fcm_token = Absent]
                                  ELSE profiles
       /\ inv' = [inv EXCEPT ![i] = [@ EXCEPT !.pc = "returned", !.pwrites = @ + 1,
                     !.cleanup = IF o = "ok" THEN "removed" ELSE "failed"]]
  /\ UNCHANGED <<outbox, event, terminal, now, reaperVars>>

EmptyDoc == [exists |-> FALSE, sent |-> FALSE, sent_at |-> NoTime, error |-> Absent,
             fcm_response |-> Absent, fcm_token |-> Absent, user_id |-> "u1"]

\* A record as a producer creates it
NewDocs == {[EmptyDoc EXCEPT !.exists = TRUE, !.sent = s, !.fcm_token = t, !.user_id = u] :
              s \in BOOLEAN, t \in TokenValues, u \in Users}

ProfileDocs == {[exists |-> e, fcm_token |-> t] : e \in BOOLEAN, t \in {Absent} \cup Tokens}

\* ---------------------------------------------------------- ContentReaper

PostIds == 1..MaxPosts
MAX_BATCH_SIZE == 500
QUERY_LIMIT == 500
AnswerCounts == {0, 1, MAX_BATCH_SIZE - 1, MAX_BATCH_SIZE, MAX_BATCH_SIZE + 1}

Min(S) == CHOOSE x \in S : \A y \in S : x <= y

\* The documents of a query snapshot come in document order
RECURSIVE Ascending(_)
Ascending(S) ==
  IF S = {} THEN <<>>
  ELSE LET lo == Min(S) IN <<lo>> \o Ascending(S \ {lo})

SnapshotOrder(S) ==
  IF S = {} THEN <<>>
  ELSE LET lo == Min(S)
           n == Cardinality(S)
       IN IF S = lo..(lo + n - 1) THEN [m \in 1..n |-> lo + m - 1] ELSE Ascending(S)

\* .limit(n) on an ordered result
Limit(q, n) == IF Len(q) <= n THEN q ELSE SubSeq(q, 1, n)

\* The expiry filter with <= in the place of <
ExpiredInclusive(p, t) == posts[p].exists /\ posts[p].expires_at <= t

\* where('expires_at', '<', now): the result is ordered by expires_at, then by id
Expired(p, t) == posts[p].exists /\ posts[p].expires_at < t

RECURSIVE ByExpiry(_)
ByExpiry(S) ==
  IF S = {} THEN <<>>
  ELSE LET first == CHOOSE p \in S : \A q \in S :
                      \/ posts[p].expires_at < posts[q].expires_at
                      \/ posts[p].expires_at = posts[q].expires_at /\ p <= q
       IN <<first>> \o ByExpiry(S \ {first})

ExpiredQuery(t) == Limit(ByExpiry({p \in PostIds : Expired(p, t)}), QUERY_LIMIT)

\* The operations of a write batch: the delete of a post, of an answer
PostOp(p) == <<p, 0>>
AnswerOp(p, a) == <<p, a>>

IdleRun == [pc |-> "idle", now |-> 0, matched |-> <<>>, idx |-> 0, snap |-> <<>>, j |-> 0,
            batch |-> {}, committed |-> FALSE, batchOperations |-> 0,
            deletedCount |-> 0, totalAnswersDeleted |-> 0,
            commits |-> 0, faultPosts |-> {}, thrown |-> {}, otherFault |-> FALSE]

CurrentPost(c) == c.matched[c.idx]

\* The cap test with > in the place of >=
CapReachedLate(ops) == ops > MAX_BATCH_SIZE

\* `batchOperations >= MAX_BATCH_SIZE` (lines 191 and 205)
CapReached(ops) == ops >= MAX_BATCH_SIZE

\* No answer was added to the post while the run went on
NoWrite == [pc |-> "none", idx |-> 0, pos |-> 0, existed |-> FALSE]

\* The id of the answer document a client adds to post p while the run goes
\* on: the id after those the post had when the run started
FreshAnswer(p) == Cardinality(before.answers[p]) + 1

\* The place of post p in the query snapshot of the run, 0 when it is not in it
Position(p, matched) ==
  IF \E k \in 1..Len(matched) : matched[k] = p
  THEN CHOOSE k \in 1..Len(matched) : matched[k] = p
  ELSE 0

\* The end of the run without the commit of the last batch
AfterLoopNoCommit(c) == [c EXCEPT !.pc = "returned"]

\* line 218, after the loop: `if (batchOperations > 0)`
AfterLoop(c) ==
  IF c.batchOperations > 0 THEN [c EXCEPT !.pc = "finalCommit"]
  ELSE [c EXCEPT !.pc = "returned"]

\* The next iteration of `for (const doc of expiredQuestions.docs)`
NextPost(c) ==
  IF c.idx < Len(c.matched)
  THEN [c EXCEPT !.pc = "read", !.idx = @ + 1, !.snap = <<>>, !.j = 0]
  ELSE AfterLoop([c EXCEPT !.snap = <<>>, !.j = 0])

\* The catch of line 211: the error of the current post is logged
Caught(c) == NextPost([c EXCEPT !.thrown = @ \cup {CurrentPost(c)}])

\* Lines 199-210: the delete of the post itself.  batch.delete on a batch
\* whose commit() was called throws (the batch is not replaced when its
\* commit fails).
QueuePost(c) ==
  IF c.committed THEN Caught(c)
  ELSE LET c1 == [c EXCEPT !.batch = @ \cup {PostOp(CurrentPost(c))},
                           !.batchOperations = @ + 1,
                           !.deletedCount = @ + 1]
       IN IF CapReached(c1.batchOperations) THEN [c1 EXCEPT !.pc = "commitPost"]
          ELSE NextPost(c1)

\* How many of `remaining` answers the loop of line 185 queues before its
\* cap test first holds (all of them when it never does)
QueuedBeforeCommit(ops, remaining) ==
  LET hits == {k \in 1..remaining : CapReached(ops + k)}
  IN IF hits = {} THEN remaining ELSE Min(hits)

\* The loop over the answers left out: only the post is queued
QueueAnswersNone(c) == QueuePost(c)

\* Lines 185-197 from answer c.j + 1 on, up to the next await
QueueAnswers(c) ==
  IF c.j = Len(c.snap) THEN QueuePost(c)
  ELSE IF c.committed THEN Caught(c)
  ELSE LET k == QueuedBeforeCommit(c.batchOperations, Len(c.snap) - c.j)
           p == CurrentPost(c)
           c1 == [c EXCEPT !.batch = @ \cup {AnswerOp(p, c.snap[m]) : m \in (c.j + 1)..(c.j + k)},
                           !.batchOperations = @ + k,
                           !.totalAnswersDeleted = @ + k,
                           !.j = @ + k]
       IN IF CapReached(c1.batchOperations) THEN [c1 EXCEPT !.pc = "commitAnswers"]
          ELSE QueuePost(c1)

\* `batch = db.batch(); batchOperations = 0`
FreshBatch(c) == [c EXCEPT !.batch = {}, !.committed = FALSE, !.batchOperations = 0]

\* The outcomes of a store read or of a batch commit
StoreOutcomes == {"ok"} \cup (IF faults < MaxFaults THEN {STORE_ERROR} ELSE {})

\* The applied batch leaving every answer in place
AnswersAfterKeepAll(batch) == answers

\* The effect of an applied batch of deletes on the two collections
PostsAfter(batch) ==
  [p \in PostIds |-> IF PostOp(p) \in batch THEN [posts[p] EXCEPT !.exists = FALSE]
                                           ELSE posts[p]]
AnswersAfter(batch) ==
  [p \in PostIds |-> {a \in answers[p] : AnswerOp(p, a) \notin batch}]

\* lines 155-173: the query of the expired posts; its failure leaves the handler
CRQuery ==
  /\ cr.pc = "idle"
  /\ \E o \in StoreOutcomes :
       /\ faults' = faults + Injected(o)
       /\ IF o = "ok"
          THEN LET found == ExpiredQuery(now)
               IN cr' = IF found = <<>> THEN [cr EXCEPT !.pc = "returned", !.now = now]
                        ELSE [cr EXCEPT !.pc = "read", !.now = now, !.matched = found, !.idx = 1]
          ELSE cr' = [cr EXCEPT !.pc = "threw", !.otherFault = TRUE]
  /\ UNCHANGED <<dispatchVars, qr, now, posts, answers, before, writer, http>>

\* line 183: the read of the answers of the current post, then lines 185-210
CRRead ==
  /\ cr.pc = "read"
  /\ \E o \in StoreOutcomes :
       /\ faults' = faults + Injected(o)
       /\ IF o = "ok"
          THEN cr' = QueueAnswers([cr EXCEPT !.snap = SnapshotOrder(answers[CurrentPost(cr)]),
                                            !.j = 0])
          ELSE cr' = Caught([cr EXCEPT !.faultPosts = @ \cup {CurrentPost(cr)}])
  /\ UNCHANGED <<dispatchVars, qr, now, posts, answers, before, writer, http>>

\* line 192: the commit inside the loop over the answers
CRCommitAnswers ==
  /\ cr.pc = "commitAnswers"
  /\ \E o \in StoreOutcomes :
       /\ faults' = faults + Injected(o)
       /\ IF o = "ok"
          THEN /\ posts' = PostsAfter(cr.batch)
               /\ answers' = AnswersAfter(cr.batch)
               /\ cr' = QueueAnswers(FreshBatch([cr EXCEPT !.commits = @ + 1]))
          ELSE /\ cr' = Caught([cr EXCEPT !.committed = TRUE, !.commits = @ + 1,
                                          !.faultPosts = @ \cup {CurrentPost(cr)}])
               /\ UNCHANGED <<posts, answers>>
  /\ UNCHANGED <<dispatchVars, qr, now, before, writer, http>>

\* line 206: the commit after the delete of the post
CRCommitPost ==
  /\ cr.pc = "commitPost"
  /\ \E o \in StoreOutcomes :
       /\ faults' = faults + Injected(o)
       /\ IF o = "ok"
          THEN /\ posts' = PostsAfter(cr.batch)
               /\ answers' = AnswersAfter(cr.batch)
               /\ cr' = NextPost(FreshBatch([cr EXCEPT !.commits = @ + 1]))
          ELSE /\ cr' = Caught([cr EXCEPT !.committed = TRUE, !.commits = @ + 1,
                                          !.faultPosts = @ \cup {CurrentPost(cr)}])
               /\ UNCHANGED <<posts, answers>>
  /\ UNCHANGED <<dispatchVars, qr, now, before, writer, http>>

\* line 219: the commit of the last batch, outside every try
CRFinalCommit ==
  /\ cr.pc = "finalCommit"
  /\ \E o \in StoreOutcomes :
       /\ faults' = faults + Injected(o)
       /\ IF o = "ok"
          THEN /\ posts' = PostsAfter(cr.batch)
               /\ answers' = AnswersAfter(cr.batch)
               /\ cr' = [cr EXCEPT !.pc = "returned", !.committed = TRUE, !.commits = @ + 1]
          ELSE /\ cr' = [cr EXCEPT !.pc = "threw", !.committed = TRUE, !.commits = @ + 1,
                                   !.otherFault = TRUE]
               /\ UNCHANGED <<posts, answers>>
  /\ UNCHANGED <<dispatchVars, qr, now, before, writer, http>>

\* ------------------------------------------------------------ QueueReaper

RETENTION_HOURS == 24
\* The clock reading at the start of a QueueReaper behaviour: late enough for
\* every sent_at of its records to be a time of the clock
StartTime == RETENTION_HOURS + 6

IdleQueueRun == [pc |-> "idle", runs |-> 0, queryTime |-> 0, cutoff |-> 0, seen |-> outbox,
                 batch |-> {}, deletedCount |-> 0, commits |-> 0]

\* lines 119-121: now minus 24 hours
OneDayAgo(t) == t - RETENTION_HOURS

\* The retention filter without its test of sent
MatchesAnySent(doc, cutoff) ==
  doc.exists /\ doc.sent_at # NoTime /\ doc.sent_at < cutoff

\* where('sent', '==', true).where('sent_at', '<', oneDayAgo): a document
\* without the field sent_at matches no range filter
Matches(doc, cutoff) ==
  doc.exists /\ doc.sent = TRUE /\ doc.sent_at # NoTime /\ doc.sent_at < cutoff

\* .limit(500): the first documents of the result, here in id order
OldNotifications(cutoff) ==
  LET found == {n \in NotifIds : Matches(outbox[n], cutoff)}
  IN IF Cardinality(found) <= QUERY_LIMIT THEN found
     ELSE {n \in found : Cardinality({m \in found : m <= n}) <= QUERY_LIMIT}

\* The commit issued whatever the number of deletes
AlwaysCommit(count) == TRUE

\* line 138: `if (deletedCount > 0)`
NeedsCommit(count) == count > 0

\* lines 119-141 up to the commit: the query, the batch of deletes, and the
\* test `deletedCount > 0`
QRQuery ==
  /\ qr.pc = "idle"
  /\ \E o \in StoreOutcomes :
       /\ faults' = faults + Injected(o)
       /\ IF o = "ok"
          THEN LET cutoff == OneDayAgo(now)
                   found == OldNotifications(cutoff)
               IN qr' = [qr EXCEPT !.pc = IF NeedsCommit(Cardinality(found)) THEN "commit"
                                                                                  ELSE "returned",
                                   !.queryTime = now, !.cutoff = cutoff,
                                   !.seen = outbox, !.batch = found,
                                   !.deletedCount = Cardinality(found)]
          ELSE qr' = [qr EXCEPT !.pc = "threw"]
  /\ UNCHANGED <<dispatchVars, now, contentVars>>

\* line 139: await batch.commit()
QRCommit ==
  /\ qr.pc = "commit"
  /\ \E o \in StoreOutcomes :
       /\ faults' = faults + Injected(o)
       /\ IF o = "ok"
          THEN /\ outbox' = [n \in NotifIds |-> IF n \in qr.batch
                                                 THEN [outbox[n] EXCEPT !.exists = FALSE]
                                                 ELSE outbox[n]]
               /\ qr' = [qr EXCEPT !.pc = "returned", !.commits = @ + 1]
          ELSE /\ qr' = [qr EXCEPT !.pc = "threw", !.commits = @ + 1]
               /\ UNCHANGED outbox
  /\ UNCHANGED <<event, profiles, inv, terminal, now, contentVars>>

\* schedule('0 2 * * *'): the scheduler starts the job again
QRSchedule ==
  /\ qr.pc \in {"returned", "threw"}
  /\ qr.runs + 1 < MaxRuns
  /\ qr' = [qr EXCEPT !.pc = "idle", !.runs = @ + 1, !.batch = {}, !.deletedCount = 0,
                      !.commits = 0]
  /\ UNCHANGED <<dispatchVars, faults, now, contentVars>>

\* An hour passes
Tick ==
  /\ now < StartTime + MaxTicks
  /\ now' = now + 1
  /\ UNCHANGED <<dispatchVars, faults, reaperVars>>

\* ------------------------------------------------------- specifications

\* No ManualEnqueue request received yet
IdleHttp == [pc |-> "idle", requests |-> 0, method |-> "none", userId |-> Absent,
             fcmToken |-> Absent, status |-> 0, error |-> Absent, failed |-> FALSE,
             seen |-> <<>>, rejections |-> {}]

NoOutbox ==
  /\ outbox = [n \in 1..MaxNotifs |-> EmptyDoc]
  /\ event = [n \in NotifIds |-> [sent |-> FALSE, fcm_token |-> Absent, user_id |-> "u1"]]
  /\ profiles = [u \in Users |-> [exists |-> FALSE, fcm_token |-> Absent]]
  /\ inv = [i \in InvIds |-> IdleInv]
  /\ terminal = [n \in NotifIds |-> FALSE]

NoPosts ==
  /\ posts = [p \in PostIds |-> [exists |-> FALSE, expires_at |-> 0]]
  /\ answers = [p \in PostIds |-> {}]
  /\ before = [posts |-> posts, answers |-> answers]
  /\ writer = [p \in PostIds |-> NoWrite]
  /\ cr = IdleRun

InitDispatch ==
  /\ outbox \in [1..MaxNotifs -> NewDocs]
  /\ event = [n \in NotifIds |-> [sent |-> outbox[n].sent, fcm_token |-> outbox[n].fcm_token,
                                  user_id |-> outbox[n].user_id]]
  /\ profiles \in [Users -> {p \in ProfileDocs : p.exists \/ p.fcm_token = Absent}]
  /\ inv = [i \in InvIds |-> IdleInv]
  /\ terminal = [n \in NotifIds |-> FALSE]
  /\ faults = 0
  /\ now = 1
  /\ NoPosts
  /\ qr = IdleQueueRun
  /\ http = IdleHttp

NextDispatch ==
  \/ \E i \in InvIds, n \in NotifIds : Trigger(i, n)
  \/ \E i \in InvIds : NoTokenUpdate(i)
  \/ \E i \in InvIds : Send(i)
  \/ \E i \in InvIds : SuccessUpdate(i)
  \/ \E i \in InvIds : ErrorUpdate(i)
  \/ \E i \in InvIds : Cleanup(i)

SpecDispatch == InitDispatch /\ [][NextDispatch]_vars

\* The token a device registers after the outbox record was written
FreshToken == "t2"

\* The app of user u stores a new device token in the profile that line 97
\* addresses
RefreshToken(u) ==
  /\ profiles[u].exists
  /\ profiles[u].fcm_token # FreshToken
  /\ profiles' = [profiles EXCEPT ![u].fcm_token = FreshToken]
  /\ UNCHANGED <<outbox, event, inv, terminal, faults, now, reaperVars>>

NextRefresh ==
  \/ NextDispatch
  \/ \E u \in Users : RefreshToken(u)

\* The dispatcher next to devices that refresh their tokens
SpecRefresh == InitDispatch /\ [][NextRefresh]_vars

\* ---------------------------------------------------------- ManualEnqueue

Methods == {"OPTIONS", "GET", "POST"}

\* The values of req.body.userId: missing, empty, a user with a profile
\* document in the model, a user without one
UnknownUser == "u2"
UserIdValues == {Absent, EmptyString, UnknownUser} \cup Users

\* The rejections of lines 252-273
MISSING_USER_ID == "missing userId"
USER_NOT_FOUND == "user not found"
NO_TOKEN == "no token"

\* The rejection of a profile without token answered as the missing userId is
NoTokenResponseAsMissing == [status |-> 400, error |-> "userId is required"]

\* line 253: res.status(400).json({error: 'userId is required'})
MissingUserIdResponse == [status |-> 400, error |-> "userId is required"]
\* line 264: res.status(404).json({error: 'User not found'})
UserNotFoundResponse == [status |-> 404, error |-> "User not found"]
\* line 271: res.status(400).json({error: 'User has no FCM token'})
NoTokenResponse == [status |-> 400, error |-> "User has no FCM token"]

\* res.status(..).send(..) / .json(..) followed by the return of the handler
Respond(h, status, error) == [h EXCEPT !.pc = "responded", !.status = status, !.error = error]

\* One of the three rejections of lines 252-273
Reject(h, cond, response) ==
  [Respond(h, response.status, response.error) EXCEPT
     !.rejections = @ \cup {[cond |-> cond, status |-> response.status,
                              error |-> response.error]}]

\* The record inserted already marked as sent
QueuedRecordSent(userId, fcmToken) ==
  [EmptyDoc EXCEPT !.exists = TRUE, !.user_id = userId, !.fcm_token = fcmToken,
                   !.sent = TRUE]

\* lines 276-284: the document passed to add()
QueuedRecord(userId, fcmToken) ==
  [EmptyDoc EXCEPT !.exists = TRUE, !.user_id = userId, !.fcm_token = fcmToken,
                   !.sent = FALSE]

\* profiles.doc(userId).get() (lines 258-261)
ProfileOf(userId) ==
  IF userId \in Users THEN profiles[userId] ELSE [exists |-> FALSE, fcm_token |-> Absent]

\* lines 233-261 up to the read of the profile: the method checks and the
\* check of userId
HttpReceive(method, userId) ==
  /\ http.pc \in {"idle", "responded"}
  /\ http.requests < MaxRequests
  /\ LET h == [http EXCEPT !.requests = @ + 1, !.method = method, !.userId = userId,
                           !.fcmToken = Absent, !.status = 0, !.error = Absent,
                           !.failed = FALSE,
                           !.seen = [outbox |-> outbox, profiles |-> profiles]]
     IN http' = IF method = "OPTIONS" THEN Respond(h, 204, EmptyString)
                ELSE IF method # "POST" THEN Respond(h, 405, "Method Not Allowed")
                ELSE IF Falsy(userId) THEN Reject(h, MISSING_USER_ID, MissingUserIdResponse)
                ELSE [h EXCEPT !.pc = "getProfile"]
  /\ UNCHANGED <<dispatchVars, faults, now, posts, answers, before, cr, qr, writer>>

\* lines 258-273: the profile read and the two checks on it; a failed read
\* is answered by the catch of line 290
HttpGetProfile ==
  /\ http.pc = "getProfile"
  /\ \E o \in StoreOutcomes :
       /\ faults' = faults + Injected(o)
       /\ LET userDoc == ProfileOf(http.userId)
          IN http' = IF o # "ok"
                     THEN Respond([http EXCEPT !.failed = TRUE], 500, ErrMessage(o))
                     ELSE IF ~userDoc.exists
                     THEN Reject(http, USER_NOT_FOUND, UserNotFoundResponse)
                     ELSE IF Falsy(userDoc.fcm_token)
                     THEN Reject(http, NO_TOKEN, NoTokenResponse)
                     ELSE [http EXCEPT !.pc = "add", !.fcmToken = userDoc.fcm_token]
  /\ UNCHANGED <<dispatchVars, now, posts, answers, before, cr, qr, writer>>

\* lines 276-293: add() of the record, the 200 response, or the catch
HttpAdd ==
  /\ http.pc = "add"
  /\ \E o \in StoreOutcomes :
       /\ faults' = faults + Injected(o)
       /\ IF o = "ok"
          THEN LET doc == QueuedRecord(http.userId, http.fcmToken)
               IN /\ outbox' = Append(outbox, doc)
                  /\ event' = Append(event, [sent |-> doc.sent, fcm_token |-> doc.fcm_token,
                                              user_id |-> doc.user_id])
                  /\ terminal' = Append(terminal, FALSE)
                  /\ http' = Respond(http, 200, Absent)
          ELSE /\ http' = Respond([http EXCEPT !.failed = TRUE], 500, ErrMessage(o))
               /\ UNCHANGED <<outbox, event, terminal>>
  /\ UNCHANGED <<profiles, inv, now, posts, answers, before, cr, qr, writer>>

NextHttp ==
  \/ \E method \in Methods, userId \in UserIdValues : HttpReceive(method, userId)
  \/ HttpGetProfile
  \/ HttpAdd

\* ManualEnqueue requests over every kind of profile and outbox
SpecHttp == InitDispatch /\ [][NextHttp]_vars

\* A ContentReaper run over posts that expire before, at and after the run's
\* clock reading
InitContent ==
  /\ NoOutbox
  /\ faults = 0
  /\ now = 1
  /\ posts \in [PostIds -> {[exists |-> TRUE, expires_at |-> e] : e \in {now - 1, now, now + 1}}]
  /\ \E count \in [PostIds -> AnswerCounts] : answers = [p \in PostIds |-> 1..count[p]]
  /\ before = [posts |-> posts, answers |-> answers]
  /\ writer = [p \in PostIds |-> NoWrite]
  /\ cr = IdleRun
  /\ qr = IdleQueueRun
  /\ http = IdleHttp

NextContent ==
  \/ CRQuery
  \/ CRRead
  \/ CRCommitAnswers
  \/ CRCommitPost
  \/ CRFinalCommit

SpecContent == InitContent /\ [][NextContent]_vars

\* A client adds one answer document under questions/{p}/answers, the
\* collection line 183 reads, while the run goes on
AddAnswer(p) ==
  /\ writer[p] = NoWrite
  /\ Cardinality({q \in PostIds : writer[q] # NoWrite}) < MaxAdds
  /\ answers' = [answers EXCEPT ![p] = @ \cup {FreshAnswer(p)}]
  /\ writer' = [writer EXCEPT ![p] = [pc |-> cr.pc, idx |-> cr.idx,
                                      pos |-> Position(p, cr.matched),
                                      existed |-> posts[p].exists]]
  /\ UNCHANGED <<dispatchVars, faults, now, posts, before, cr, qr, http>>

\* A run over expired and unexpired posts, with room for one store failure
InitContentWriter ==
  /\ NoOutbox
  /\ faults = MaxFaults - 1
  /\ now = 1
  /\ posts \in [PostIds -> {[exists |-> TRUE, expires_at |-> e] : e \in {now - 1, now + 1}}]
  /\ \E count \in [PostIds -> AnswerCounts \ {0, MAX_BATCH_SIZE}] :
       answers = [p \in PostIds |-> 1..count[p]]
  /\ before = [posts |-> posts, answers |-> answers]
  /\ writer = [p \in PostIds |-> NoWrite]
  /\ cr = IdleRun
  /\ qr = IdleQueueRun
  /\ http = IdleHttp

NextContentWriter ==
  \/ NextContent
  \/ \E p \in PostIds : AddAnswer(p)

\* A ContentReaper run next to clients that add answers
SpecContentWriter == InitContentWriter /\ [][NextContentWriter]_vars

\* QueueReaper runs over records of every kind and age while time passes
QueuedDocs ==
  {EmptyDoc} \cup
  {[EmptyDoc EXCEPT !.exists = TRUE, !.sent = s, !.sent_at = t, !.fcm_token = "t1"] :
     s \in BOOLEAN,
     t \in {NoTime, StartTime - RETENTION_HOURS - 1, StartTime - RETENTION_HOURS,
            StartTime - RETENTION_HOURS + 1}}

InitQueue ==
  /\ outbox \in [1..MaxQueued -> QueuedDocs]
  /\ event = [n \in NotifIds |-> [sent |-> FALSE, fcm_token |-> "t1", user_id |-> "u1"]]
  /\ profiles = [u \in Users |-> [exists |-> TRUE, fcm_token |-> "t1"]]
  /\ inv = [i \in InvIds |-> IdleInv]
  /\ terminal = [n \in NotifIds |-> FALSE]
  /\ faults = 0
  /\ now = StartTime
  /\ NoPosts
  /\ qr = IdleQueueRun
  /\ http = IdleHttp

NextQueue ==
  \/ QRQuery
  \/ QRCommit
  \/ QRSchedule
  \/ Tick

SpecQueue == InitQueue /\ [][NextQueue]_vars

\* QueueReaper runs over more old records than one query returns
InitQueueFull ==
  /\ outbox = [n \in 1..(QUERY_LIMIT + 1) |->
                 [EmptyDoc EXCEPT !.exists = TRUE, !.sent = TRUE, !.fcm_token = "t1",
                                  !.sent_at = StartTime - RETENTION_HOURS - 1]]
  /\ event = [n \in NotifIds |-> [sent |-> FALSE, fcm_token |-> "t1", user_id |-> "u1"]]
  /\ profiles = [u \in Users |-> [exists |-> TRUE, fcm_token |-> "t1"]]
  /\ inv = [i \in InvIds |-> IdleInv]
  /\ terminal = [n \in NotifIds |-> FALSE]
  /\ faults = 0
  /\ now = StartTime
  /\ NoPosts
  /\ qr = IdleQueueRun
  /\ http = IdleHttp

SpecQueueFull == (InitQueue \/ InitQueueFull) /\ [][NextQueue]_vars

\* The outbox under all its writers: one record without token closed more than
\* a day ago whose creation event may be delivered again, room for one store failure and for
\* one ManualEnqueue request, which adds the record still to be dispatched
InitOutbox ==
  /\ outbox = <<[EmptyDoc EXCEPT !.exists = TRUE, !.sent = TRUE,
                                 !.error = NO_TOKEN_MESSAGE,
                                 !.sent_at = StartTime - RETENTION_HOURS - 1]>>
  /\ event = [n \in NotifIds |-> [sent |-> FALSE, fcm_token |-> Absent, user_id |-> "u1"]]
  /\ profiles = [u \in Users |-> [exists |-> TRUE, fcm_token |-> "t1"]]
  /\ inv = [i \in InvIds |-> IdleInv]
  /\ terminal = [n \in NotifIds |-> outbox[n].sent]
  /\ faults = MaxFaults - 1
  /\ now = StartTime
  /\ NoPosts
  /\ qr = IdleQueueRun
  /\ http = [IdleHttp EXCEPT !.requests = MaxRequests - 1]

NextOutbox ==
  \/ NextDispatch
  \/ QRQuery
  \/ QRCommit
  \/ NextHttp

\* The dispatcher, QueueReaper and ManualEnqueue on one outbox
SpecOutbox == InitOutbox /\ [][NextOutbox]_vars

\* Every triggered handler: a dispatcher scenario or a ContentReaper scenario
Init == InitDispatch \/ InitContent

Next == NextDispatch \/ NextContent

Spec == Init /\ [][Next]_vars

\* ------------------------------------------------------------------ claims

Finished(i) == inv[i].pc \in {"returned", "threw"}

\* C1: an invocation delivered after a dispatcher update has applied
\* sent=true to its record makes no provider send call and no store write.
C1_LateDeliveryDoesNothing ==
  \A i \in InvIds :
    inv[i].late => inv[i].sends = 0 /\ inv[i].writes = 0 /\ inv[i].pwrites = 0

\* C2: once every invocation on a record created with sent=false has
\* finished (no store failure), the stored record has sent = true and exactly
\* one of error and fcm_response.
C2_ExactlyOneOutcome ==
  \A n \in NotifIds :
    ( /\ faults = 0
      /\ outbox[n].exists /\ event[n].sent = FALSE
      /\ \A i \in InvIds : Finished(i)
      /\ \E i \in InvIds : inv[i].n = n )
    => /\ outbox[n].sent = TRUE
       /\ (outbox[n].error # Absent) # (outbox[n].fcm_response # Absent)

\* C3: an invocation whose received record has sent = true returns at once:
\* no provider send call, no update of the outbox record, no profile update.
C3_SentGateNoSideEffect ==
  \A i \in InvIds :
    (inv[i].pc # "idle" /\ inv[i].snap.sent = TRUE)
    => /\ inv[i].pc = "returned"
       /\ inv[i].sends = 0 /\ inv[i].writes = 0 /\ inv[i].pwrites = 0
       /\ inv[i].applied = 0 /\ inv[i].cleanup = "none"

C3_Witness ==
  \E i \in InvIds :
    /\ inv[i].pc = "returned" /\ inv[i].snap.sent = TRUE
    /\ outbox[inv[i].n].sent = TRUE /\ outbox[inv[i].n].sent_at = NoTime

\* C4, as stated: every finished invocation whose received record does not
\* have sent = true has had a terminal sent=true write applied to the record.
C4_TerminalWriteApplied ==
  \A i \in InvIds :
    (Finished(i) /\ inv[i].snap.sent # TRUE)
    => inv[i].applied >= 1 /\ outbox[inv[i].n].sent = TRUE

\* C4, amended: every finished invocation whose received record does not
\* have sent = true has issued a terminal sent=true update; it returns only
\* after one was applied (the record then has sent = true), and when none
\* was applied it has thrown.
C4_TerminalWriteIssued ==
  \A i \in InvIds :
    (Finished(i) /\ inv[i].snap.sent # TRUE)
    => /\ inv[i].writes >= 1
       /\ inv[i].pc = "returned" => inv[i].applied >= 1
       /\ inv[i].applied >= 1 => outbox[inv[i].n].sent = TRUE
       /\ inv[i].applied = 0 => inv[i].pc = "threw"

C4_Witness ==
  \E i \in InvIds :
    /\ inv[i].pc = "returned" /\ inv[i].snap.sent = FALSE
    /\ inv[i].sendResult = "ok" /\ inv[i].writes = 2 /\ inv[i].applied = 1
    /\ outbox[inv[i].n].sent = TRUE
    /\ outbox[inv[i].n].error = ErrMessage(STORE_ERROR)

\* No error escapes an invocation of the dispatcher
NoErrorEscapesDispatcher == \A i \in InvIds : inv[i].pc # "threw"

\* No error escapes a run of ContentReaper
NoErrorEscapesContentReaper == cr.pc # "threw"

\* C5: no error escapes a triggered invocation of the dispatcher or of
\* ContentReaper: whichever store read, update, commit or provider call
\* fails, the invocation returns normally.
C5_NoErrorEscapes == NoErrorEscapesDispatcher /\ NoErrorEscapesContentReaper

\* C6, as stated, of the invocations that return: a provider failure that is
\* not a permanent token error never removes the profile's token, and a
\* permanent token error always ends with the token removed from the
\* recipient's profile.
C6_TokenCleanup ==
  \A i \in InvIds :
    (inv[i].pc = "returned" /\ inv[i].sendResult \in ProviderErrors)
    => IF inv[i].sendResult \in {INVALID_TOKEN, NOT_REGISTERED}
       THEN profiles[inv[i].snap.user_id].fcm_token = Absent
       ELSE inv[i].pwrites = 0 /\ inv[i].cleanup = "none"

\* C6, amended: a provider failure that is not a permanent token error never
\* updates the profile; a permanent token error whose error update is applied
\* is followed by exactly one attempt to delete the token field, which leaves
\* the field removed unless that profile update fails; when the error update
\* itself fails, the handler throws before any cleanup.
C6_TokenCleanupAttempted ==
  \A i \in InvIds :
    (Finished(i) /\ inv[i].sendResult \in ProviderErrors)
    => IF inv[i].sendResult \in {INVALID_TOKEN, NOT_REGISTERED}
       THEN /\ inv[i].pc = "returned" =>
                 /\ inv[i].pwrites = 1
                 /\ inv[i].cleanup \in {"removed", "failed"}
                 /\ inv[i].cleanup = "removed" =>
                       profiles[inv[i].snap.user_id].fcm_token = Absent
            /\ inv[i].pc = "threw" => inv[i].pwrites = 0 /\ inv[i].applied = 0
       ELSE inv[i].pwrites = 0 /\ inv[i].cleanup = "none"

C6_Witness ==
  /\ \E i \in InvIds :
       /\ inv[i].pc = "returned" /\ inv[i].sendResult = NOT_REGISTERED
       /\ inv[i].cleanup = "removed" /\ event[inv[i].n].fcm_token = "t1"
  /\ \E i \in InvIds :
       /\ inv[i].pc = "returned" /\ inv[i].sendResult = OTHER_ERROR
       /\ profiles[inv[i].snap.user_id].fcm_token = Absent

\* C7: every batch commit ContentReaper issues holds at most 500 deletes.
CommitPoints == {"commitAnswers", "commitPost", "finalCommit"}

C7_BatchCap ==
  cr.pc \in CommitPoints
  => Cardinality(cr.batch) <= 500 /\ cr.batchOperations <= 500

C7_Witness ==
  /\ cr.pc = "commitAnswers"
  /\ Len(cr.snap) > 500
  /\ cr.commits >= 1
  /\ Cardinality(cr.batch) = 500

\* C8: when the store failures of a run all fall in the processing of one
\* matched post, every other matched post is deleted by the end of the run.
C8_FailureIsolation ==
  (cr.pc = "returned" /\ Cardinality(cr.faultPosts) = 1)
  => \A k \in 1..Len(cr.matched) :
       cr.matched[k] \notin cr.faultPosts => ~posts[cr.matched[k]].exists

\* C9: QueueReaper deletes a record only if, at query time, it had
\* sent = true and sent_at earlier than the query time minus 24 hours.
C9_RetentionFilter ==
  [][\A n \in NotifIds :
       (outbox[n].exists /\ ~outbox'[n].exists)
       => /\ qr.seen[n].exists
          /\ qr.seen[n].sent = TRUE
          /\ qr.seen[n].sent_at # NoTime
          /\ qr.seen[n].sent_at < qr.queryTime - 24]_vars

C9_Witness ==
  /\ qr.pc = "returned"
  /\ \E n \in NotifIds : ~outbox[n].exists /\ qr.seen[n].exists
  /\ \E n \in NotifIds :
       /\ outbox[n].exists /\ outbox[n].sent = FALSE
       /\ outbox[n].sent_at # NoTime /\ outbox[n].sent_at < qr.queryTime - 24

\* C10: after a ContentReaper run with no store failure, every post with
\* expires_at < now is deleted together with all of its answers, and every
\* other post and its answers are unchanged.
C10_ExpiryCorrectness ==
  (cr.pc = "returned" /\ faults = 0)
  => \A p \in PostIds :
       IF before.posts[p].expires_at < cr.now
       THEN ~posts[p].exists /\ answers[p] = {}
       ELSE posts[p] = before.posts[p] /\ answers[p] = before.answers[p]

C10_Witness ==
  /\ cr.pc = "returned" /\ faults = 0
  /\ \E p \in PostIds :
       /\ before.posts[p].expires_at = cr.now - 1
       /\ Cardinality(before.answers[p]) > 500
       /\ ~posts[p].exists /\ answers[p] = {}
  /\ \E p \in PostIds :
       /\ before.posts[p].expires_at = cr.now
       /\ posts[p].exists /\ answers[p] # {}

RunEnded == cr.pc \in {"returned", "threw"}

\* C11, as stated: at the end of any ContentReaper run, failed reads and
\* commits included, an answer has been deleted if and only if its parent post
\* has been deleted.
C11_AnswerDeletedIffPost ==
  RunEnded
  => \A p \in PostIds : \A a \in before.answers[p] :
       (a \notin answers[p]) <=> ~posts[p].exists

\* C11, amended: at the end of any run no answer survives a deleted parent;
\* at the end of a run in which no store call failed no post survives with
\* some of its answers deleted.
C11_NoOrphanAndCompleteWithoutFailure ==
  RunEnded
  => \A p \in PostIds :
       /\ ~posts[p].exists => answers[p] = {}
       /\ (cr.pc = "returned" /\ faults = 0 /\ answers[p] # before.answers[p])
          => ~posts[p].exists

C11_Witness ==
  /\ cr.pc = "returned" /\ faults > 0 /\ cr.commits >= 2
  /\ \E p \in PostIds : ~posts[p].exists /\ Cardinality(before.answers[p]) > 500
  /\ \E p \in PostIds : posts[p].exists /\ answers[p] = before.answers[p]
                          /\ before.posts[p].expires_at < cr.now
\* C19: in every state of a ContentReaper run without concurrent writer, no
\* post is deleted while one of its answers still exists, and a batch that
\* holds the delete of a post holds the delete of each of its stored answers.
C19_PostDeletedAfterItsAnswers ==
  \A p \in PostIds :
    /\ ~posts[p].exists => answers[p] = {}
    /\ PostOp(p) \in cr.batch => \A a \in answers[p] : AnswerOp(p, a) \in cr.batch

C19_Witness ==
  /\ cr.pc = "finalCommit"
  /\ \E p \in PostIds :
       /\ ~posts[p].exists /\ answers[p] = {}
       /\ Cardinality(before.answers[p]) > 500
       /\ cr.commits >= 2
\* C15: an invocation whose received record has sent # true and no device
\* token makes no provider send call and no profile update, and its only store
\* write sets sent=true, error="No FCM token" and sent_at on that record.
C15_NoTokenPath ==
  \A i \in InvIds :
    ( /\ inv[i].pc # "idle"
      /\ inv[i].snap.sent # TRUE
      /\ inv[i].snap.fcm_token \in {Absent, EmptyString} )
    => /\ inv[i].sends = 0 /\ inv[i].pwrites = 0 /\ inv[i].cleanup = "none"
       /\ inv[i].pc \in {"noTokenUpdate", "returned", "threw"}
       /\ inv[i].writes = (IF inv[i].pc = "noTokenUpdate" THEN 0 ELSE 1)
       /\ inv[i].applied = (IF inv[i].pc = "returned" THEN 1 ELSE 0)
       /\ inv[i].applied = 1 =>
            outbox[inv[i].n] = [EmptyDoc EXCEPT !.exists = TRUE, !.sent = TRUE,
                                                !.error = "No FCM token", !.sent_at = now,
                                                !.fcm_token = inv[i].snap.fcm_token,
                                                !.user_id = inv[i].snap.user_id]

C15_Witness ==
  \E i \in InvIds :
    /\ inv[i].pc = "returned" /\ inv[i].snap.sent = FALSE
    /\ inv[i].snap.fcm_token = EmptyString
    /\ inv[i].writes = 1 /\ outbox[inv[i].n].error = "No FCM token"
\* C16: in every state an outbox record carries an error field only if it
\* had no device token or a provider send for it failed; a record whose
\* provider sends all succeeded ends with sent=true and fcm_response set to the
\* returned id and without an error field, even if a store update fails.
C16_ErrorOnlyOnFailure ==
  \A n \in NotifIds :
    /\ outbox[n].error # Absent
       => \/ Falsy(event[n].fcm_token)
          \/ \E i \in InvIds : inv[i].n = n /\ inv[i].sendResult \in ProviderErrors
    /\ ( /\ \E i \in InvIds : inv[i].n = n /\ inv[i].sendResult = "ok"
         /\ \A i \in InvIds : inv[i].n = n => inv[i].pc = "returned" /\ inv[i].sendResult = "ok" )
       => /\ outbox[n].sent = TRUE
          /\ outbox[n].fcm_response = "message-id"
          /\ outbox[n].error = Absent
\* The records of the query snapshot of the run that pass the filter of the
\* query, spelled out
MatchedAtQuery ==
  {n \in DOMAIN qr.seen :
     /\ qr.seen[n].exists /\ qr.seen[n].sent = TRUE
     /\ qr.seen[n].sent_at # NoTime /\ qr.seen[n].sent_at < qr.queryTime - 24}

\* C12: a QueueReaper run issues at most one batch commit; that commit holds
\* every record matched by its query (the first 500 of them) and at most 500
\* deletes; a run whose query matches nothing performs no store write.
C12_SingleBatch ==
  /\ qr.commits <= 1
  /\ qr.pc = "commit"
     => /\ qr.commits = 0
        /\ qr.batch \subseteq MatchedAtQuery
        /\ Cardinality(qr.batch) = (IF Cardinality(MatchedAtQuery) <= 500
                                    THEN Cardinality(MatchedAtQuery) ELSE 500)
        /\ Cardinality(qr.batch) >= 1
  /\ (qr.pc \in {"commit", "returned"} /\ MatchedAtQuery = {})
     => qr.pc = "returned" /\ qr.commits = 0 /\ outbox = qr.seen

C12_Witness ==
  /\ qr.pc = "returned" /\ qr.commits = 1 /\ qr.runs = 0
  /\ Cardinality(qr.batch) = 500
  /\ Cardinality({n \in NotifIds : outbox[n].exists}) = 1
\* C20: whenever a step removes the token field of a profile, the token
\* removed is the device token of the record whose send the provider rejected;
\* a token the profile received after the record was created is never removed.
C20_CleanupRemovesRejectedToken ==
  [][\A u \in Users :
       (profiles[u].fcm_token # Absent /\ profiles'[u].fcm_token = Absent)
       => \E i \in InvIds : /\ inv[i].pc = "cleanup"
                            /\ inv[i].snap.user_id = u
                            /\ inv[i].snap.fcm_token = profiles[u].fcm_token]_vars
\* The answer of the post was added after the run read the answers of the
\* post (line 183)
AddedAfterRead(w) ==
  /\ w.pos >= 1
  /\ \/ w.idx > w.pos
     \/ w.idx = w.pos /\ w.pc \in {"commitAnswers", "commitPost"}
     \/ w.pc \in {"finalCommit", "returned", "threw"}

\* C18: an orphaned answer (its post deleted, the answer still stored) is
\* reachable, and only one way: a client added the answer after the run read
\* the answers of the post.
C18_OrphanOnlyFromLateAdd ==
  \A p \in PostIds :
    ~posts[p].exists
    => /\ answers[p] \subseteq {FreshAnswer(p)}
       /\ answers[p] # {} => AddedAfterRead(writer[p])

C18_Witness ==
  /\ cr.pc = "returned" /\ faults = MaxFaults - 1
  /\ \E p \in PostIds :
       /\ ~posts[p].exists /\ answers[p] = {FreshAnswer(p)}
       /\ before.answers[p] # {}
       /\ writer[p].existed /\ AddedAfterRead(writer[p])
       /\ writer[p].pc \in {"read", "commitAnswers", "commitPost", "finalCommit"}
\* C13 as stated: the three rejections of ManualEnqueue (missing userId,
\* user not found, profile without token) carry pairwise distinct HTTP statuses.
C13_DistinctStatuses ==
  \A x \in http.rejections : \A y \in http.rejections :
    x.cond # y.cond => x.status # y.status

\* C13, amended: the three rejections carry pairwise distinct responses, told
\* apart by the error message; the statuses are 400, 404 and 400, so a missing
\* userId and a profile without token share status 400.
C13_DistinctResponses ==
  \A x \in http.rejections :
    /\ x.status = (IF x.cond = USER_NOT_FOUND THEN 404 ELSE 400)
    /\ \A y \in http.rejections :
         x.cond # y.cond => <<x.status, x.error>> # <<y.status, y.error>> /\ x.error # y.error

C13_Witness ==
  /\ http.pc = "responded"
  /\ {x.cond : x \in http.rejections} = {MISSING_USER_ID, USER_NOT_FOUND, NO_TOKEN}

\* The request is a POST for an existing user whose profile holds a token
ValidRequest(h) ==
  /\ h.method = "POST"
  /\ ~Falsy(h.userId)
  /\ h.userId \in Users
  /\ h.seen.profiles[h.userId].exists
  /\ ~Falsy(h.seen.profiles[h.userId].fcm_token)

\* C14 as stated: a POST for an existing user whose profile holds a token
\* inserts exactly one outbox record with sent = false and answers 200; every
\* other request inserts nothing and changes no stored document.
C14_ValidPostInsertsOne ==
  http.pc = "responded"
  => /\ profiles = http.seen.profiles
     /\ IF ValidRequest(http)
        THEN /\ http.status = 200
             /\ Len(outbox) = Len(http.seen.outbox) + 1
             /\ outbox[Len(outbox)].sent = FALSE
        ELSE outbox = http.seen.outbox

\* C14, amended: such a POST inserts exactly one record with sent = false and
\* answers 200 when its two store calls succeed; when one of them fails it
\* answers 500 and inserts nothing; every other request inserts nothing and
\* changes no stored document.
C14_EnqueueFrame ==
  http.pc = "responded"
  => /\ profiles = http.seen.profiles
     /\ http.status = 200 <=> (ValidRequest(http) /\ ~http.failed)
     /\ http.failed => http.status = 500
     /\ IF http.status = 200
        THEN outbox = Append(http.seen.outbox,
                             [EmptyDoc EXCEPT !.exists = TRUE, !.sent = FALSE,
                                !.user_id = http.userId,
                                !.fcm_token = http.seen.profiles[http.userId].fcm_token])
        ELSE outbox = http.seen.outbox

C14_Witness ==
  /\ http.pc = "responded" /\ http.status = 200 /\ http.requests >= 2 /\ faults >= 1
  /\ Len(outbox) = Len(http.seen.outbox) + 1
  /\ outbox[Len(outbox)].exists /\ ~outbox[Len(outbox)].sent
\* C17: once the stored sent field of an outbox record is true it stays true
\* while the record exists, and the record ceases to exist only by the batch
\* commit of QueueReaper.
C17_SentIsStable ==
  [][\A n \in DOMAIN outbox :
       (outbox[n].exists /\ outbox[n].sent = TRUE)
       => /\ n \in DOMAIN outbox'
          /\ outbox'[n].exists => outbox'[n].sent = TRUE
          /\ ~outbox'[n].exists => (qr.pc = "commit" /\ n \in qr.batch /\ qr'.pc = "returned")]_vars

C17_Witness ==
  /\ \E i \in InvIds : inv[i].pc = "returned" /\ inv[i].late /\ inv[i].applied >= 1
                         /\ outbox[inv[i].n].exists /\ outbox[inv[i].n].sent = TRUE
  /\ \E n \in NotifIds : ~outbox[n].exists
  /\ http.status = 200
====
